---- MODULE Spec2Model ----
(***************************************************************************)
(* A model of xsdgen/config.go: the reversible Option system of Config,    *)
(* the name-transform pipeline, the SOAP array resolver, the               *)
(* struct-to-slice flattener and the UnmarshalXML / MarshalXML routines    *)
(* the flattener synthesizes.                                              *)
(*                                                                         *)
(* Go strings that the code inspects character by character are sequences  *)
(* of one-character strings; function values (closures) are records that   *)
(* hold what the closure captured; a pointer to a Config field is the pair *)
(* <<config, field>>.                                                      *)
(***************************************************************************)
EXTENDS Integers, Sequences, FiniteSets, TLC

VARIABLES
  cfgs,     \* the Config objects of the program, by identity
  call,     \* the last cfg.Option(...) call and what was done with its result
  nres,     \* the last private / public / typeName call and its result
  types,    \* the type graph of the schema (the *xsd.ComplexType objects)
  sres,     \* the last parseSOAPArrayType call and its result
  decl,     \* the spec (draft declaration) under post-processing
  fres,     \* the last soapArrayToSlice call
  xm        \* the run of the synthesized MarshalXML / UnmarshalXML routines

vars == <<cfgs, call, nres, types, sres, decl, fres, xm>>

(***************************************************************************)
(* Bounds of the model.                                                    *)
(***************************************************************************)
MaxOpts == 2
MaxNameLen == 3
MaxElems == 2
MaxFields == 2
MaxItems == 2

(***************************************************************************)
(* Config, loggers and the three verbosity tiers.                          *)
(***************************************************************************)
CfgIds == {"X", "Y"}

Nil == [k |-> "nil"]

NilLogger == "nil"

NilOption == [op |-> "nil"]

Config ==
  [logger |-> NilLogger, loglevel |-> 0, pkgname |-> "",
   preprocessType |-> Nil, postprocessType |-> Nil,
   filterAttributes |-> Nil, filterElements |-> Nil, filterTypes |-> Nil,
   typeNameTransform |-> Nil, elemNameTransform |-> Nil,
   attrNameTransform |-> Nil, allNameTransform |-> Nil]

ConfigFields == DOMAIN Config

\* The number of lines the logger receives from one call of each tier.
errorf(cfg) == IF cfg.logger # NilLogger THEN 1 ELSE 0

logf(cfg) == IF cfg.logger # NilLogger /\ cfg.loglevel > 0 THEN 1 ELSE 0

debugf(cfg) == IF cfg.logger # NilLogger /\ cfg.loglevel > 3 THEN 1 ELSE 0

(***************************************************************************)
(* Regular expressions: a pattern is a character class, or does not        *)
(* compile.  ReplaceAllString replaces every character of the class.       *)
(***************************************************************************)
Compile(pat) == [reg |-> pat.class, err |-> ~pat.valid]

RECURSIVE ReplaceAllString(_, _, _)
ReplaceAllString(reg, s, repl) ==
  IF s = <<>> THEN <<>>
  ELSE (IF Head(s) \in reg THEN repl ELSE <<Head(s)>>)
         \o ReplaceAllString(reg, Tail(s), repl)

(***************************************************************************)
(* Options.  An Option is a function value: the record of the values it    *)
(* closes over.  Each <Name>Fn below is the body of the function that     *)
(* <Name> returns: applied to the Config c in the heap cs, it              *)
(* gives the new heap and the Option it returns.                           *)
(***************************************************************************)
ErrorLog(l, level) == [op |-> "ErrorLog", l |-> l, level |-> level]

ErrorLogFn(o, c, cs) ==
  [cfgs |-> [cs EXCEPT ![c].logger = o.l, ![c].loglevel = o.level],
   ret  |-> ErrorLog(cs[c].logger, cs[c].loglevel)]

replacePropertyFilter(p, fn) == [op |-> "replacePropertyFilter", p |-> p, fn |-> fn]

\* The closure ignores its *Config argument: it writes through p.
replacePropertyFilterFn(o, c, cs) ==
  [cfgs |-> [cs EXCEPT ![o.p[1]][o.p[2]] = o.fn],
   ret  |-> replacePropertyFilter(o.p, cs[o.p[1]][o.p[2]])]

IgnoreAttributes(names) == [op |-> "IgnoreAttributes", names |-> names]

IgnoreAttributesFn(o, c, cs) ==
  replacePropertyFilterFn(
    replacePropertyFilter(<<c, "filterAttributes">>,
                          [k |-> "IgnoreAttributes", names |-> o.names]), c, cs)

IgnoreElements(names) == [op |-> "IgnoreElements", names |-> names]

IgnoreElementsFn(o, c, cs) ==
  replacePropertyFilterFn(
    replacePropertyFilter(<<c, "filterElements">>,
                          [k |-> "IgnoreElements", names |-> o.names]), c, cs)

\* pat stands for strings.Join(patterns, "|").
OnlyTypes(pat) ==
  [op |-> "OnlyTypes", pat |-> pat, reg |-> Compile(pat).reg, err |-> Compile(pat).err]

OnlyTypesFn(o, c, cs) ==
  replacePropertyFilterFn(
    replacePropertyFilter(<<c, "filterTypes">>,
                          [k |-> "OnlyTypes", pat |-> o.pat, reg |-> o.reg,
                           err |-> o.err, cfg |-> c]), c, cs)

replaceNameTransform(p, fn) == [op |-> "replaceNameTransform", p |-> p, fn |-> fn]

\* An inverse that restores no transform at all instead of the previous one.
replaceNameTransformFn_Mut(o, c, cs) ==
  [cfgs |-> [cs EXCEPT ![o.p[1]][o.p[2]] = o.fn],
   ret  |-> replaceNameTransform(o.p, Nil)]

replaceNameTransformFn(o, c, cs) ==
  [cfgs |-> [cs EXCEPT ![o.p[1]][o.p[2]] = o.fn],
   ret  |-> replaceNameTransform(o.p, cs[o.p[1]][o.p[2]])]

replacePreprocessType(p, fn) == [op |-> "replacePreprocessType", p |-> p, fn |-> fn]

replacePreprocessTypeFn(o, c, cs) ==
  [cfgs |-> [cs EXCEPT ![o.p[1]][o.p[2]] = o.fn],
   ret  |-> replacePreprocessType(o.p, cs[o.p[1]][o.p[2]])]

replacePostprocessType(p, fn) == [op |-> "replacePostprocessType", p |-> p, fn |-> fn]

replacePostprocessTypeFn(o, c, cs) ==
  [cfgs |-> [cs EXCEPT ![o.p[1]][o.p[2]] = o.fn],
   ret  |-> replacePostprocessType(o.p, cs[o.p[1]][o.p[2]])]

PackageName(name) == [op |-> "PackageName", name |-> name]

\* An inverse that captures the new name instead of the previous one.
PackageNameFn_Mut(o, c, cs) ==
  [cfgs |-> [cs EXCEPT ![c].pkgname = o.name],
   ret  |-> PackageName(o.name)]

PackageNameFn(o, c, cs) ==
  [cfgs |-> [cs EXCEPT ![c].pkgname = o.name],
   ret  |-> PackageName(cs[c].pkgname)]

ReplaceAllNames(pat, repl) ==
  [op |-> "ReplaceAllNames", pat |-> pat, reg |-> Compile(pat).reg,
   err |-> Compile(pat).err, repl |-> repl]

\* A rule that replaces the installed chain instead of wrapping it.
ReplaceAllNamesFn_Mut(o, c, cs) ==
  replaceNameTransformFn(
    replaceNameTransform(<<c, "allNameTransform">>,
                         [k |-> "ReplaceAllNames", prev |-> Nil,
                          reg |-> o.reg, err |-> o.err, repl |-> o.repl,
                          cfg |-> c]), c, cs)

ReplaceAllNamesFn(o, c, cs) ==
  replaceNameTransformFn(
    replaceNameTransform(<<c, "allNameTransform">>,
                         [k |-> "ReplaceAllNames", prev |-> cs[c].allNameTransform,
                          reg |-> o.reg, err |-> o.err, repl |-> o.repl,
                          cfg |-> c]), c, cs)

replaceAllNamesRegex(reg, repl) ==
  [op |-> "replaceAllNamesRegex", reg |-> reg, repl |-> repl]

replaceAllNamesRegexFn(o, c, cs) ==
  replaceNameTransformFn(
    replaceNameTransform(<<c, "allNameTransform">>,
                         [k |-> "replaceAllNamesRegex", prev |-> cs[c].allNameTransform,
                          reg |-> o.reg, err |-> FALSE, repl |-> o.repl,
                          cfg |-> c]), c, cs)

ProcessTypes(fn) == [op |-> "ProcessTypes", fn |-> fn]

ProcessTypesFn(o, c, cs) ==
  replacePreprocessTypeFn(
    replacePreprocessType(<<c, "preprocessType">>,
                          [k |-> "ProcessTypes", prev |-> cs[c].preprocessType,
                           fn |-> o.fn]), c, cs)

HandleSOAPArrayType == [op |-> "HandleSOAPArrayType"]

HandleSOAPArrayTypeFn(o, c, cs) ==
  replacePreprocessTypeFn(
    replacePreprocessType(<<c, "preprocessType">>,
                          [k |-> "HandleSOAPArrayType", prev |-> cs[c].preprocessType,
                           cfg |-> c]), c, cs)

SOAPArrayAsSlice == [op |-> "SOAPArrayAsSlice"]

SOAPArrayAsSliceFn(o, c, cs) ==
  replacePostprocessTypeFn(
    replacePostprocessType(<<c, "postprocessType">>,
                           [k |-> "SOAPArrayAsSlice", prev |-> cs[c].postprocessType,
                            cfg |-> c]), c, cs)

\* opt(cfg): the call of an Option value.
Apply(o, c, cs) ==
  CASE o.op = "ErrorLog"               -> ErrorLogFn(o, c, cs)
    [] o.op = "replacePropertyFilter"  -> replacePropertyFilterFn(o, c, cs)
    [] o.op = "IgnoreAttributes"       -> IgnoreAttributesFn(o, c, cs)
    [] o.op = "IgnoreElements"         -> IgnoreElementsFn(o, c, cs)
    [] o.op = "OnlyTypes"              -> OnlyTypesFn(o, c, cs)
    [] o.op = "replaceNameTransform"   -> replaceNameTransformFn(o, c, cs)
    [] o.op = "replacePreprocessType"  -> replacePreprocessTypeFn(o, c, cs)
    [] o.op = "replacePostprocessType" -> replacePostprocessTypeFn(o, c, cs)
    [] o.op = "PackageName"            -> PackageNameFn(o, c, cs)
    [] o.op = "ReplaceAllNames"        -> ReplaceAllNamesFn(o, c, cs)
    [] o.op = "replaceAllNamesRegex"   -> replaceAllNamesRegexFn(o, c, cs)
    [] o.op = "ProcessTypes"           -> ProcessTypesFn(o, c, cs)
    [] o.op = "HandleSOAPArrayType"    -> HandleSOAPArrayTypeFn(o, c, cs)
    [] o.op = "SOAPArrayAsSlice"       -> SOAPArrayAsSliceFn(o, c, cs)

\* cfg.Option(opts...): previous is the result of the last opt only.  snaps
\* records the heap as it was before each opt.
RECURSIVE OptionLoop(_, _, _, _, _)
OptionLoop(c, opts, cs, previous, snaps) ==
  IF opts = <<>> THEN [cfgs |-> cs, previous |-> previous, snaps |-> snaps]
  ELSE LET r == Apply(Head(opts), c, cs)
       IN  OptionLoop(c, Tail(opts), r.cfgs, r.ret, Append(snaps, cs))

Option(c, opts, cs) == OptionLoop(c, opts, cs, NilOption, <<>>)

(***************************************************************************)
(* The name-transform pipeline.  An xml.Name is [Space, Local]; a call of  *)
(* an installed nameTransform gives the string s and the number of lines   *)
(* it logged.                                                              *)
(***************************************************************************)
RECURSIVE CallNameTransform(_, _, _)
CallNameTransform(fn, name, cs) ==
  LET p == IF fn.prev # Nil THEN CallNameTransform(fn.prev, name, cs)
           ELSE [s |-> name.Local, logs |-> 0]
  IN  IF fn.err
      THEN [s |-> p.s, logs |-> p.logs + logf(cs[fn.cfg])]
      ELSE [s |-> ReplaceAllString(fn.reg, p.s, fn.repl), logs |-> p.logs]

UpperCase == [ch \in {"a", "b"} |-> IF ch = "a" THEN "A" ELSE "B"]

LowerCase == [ch \in {"A", "B"} |-> IF ch = "A" THEN "a" ELSE "b"]

Digits == {"1"}

ToLower(ch) == IF ch \in DOMAIN LowerCase THEN LowerCase[ch] ELSE ch

ToUpper(ch) == IF ch \in DOMAIN UpperCase THEN UpperCase[ch] ELSE ch

\* strings.Title's word boundary: anything but a letter, a digit or "_".
isSeparator(ch) ==
  ch \notin (DOMAIN UpperCase \cup DOMAIN LowerCase \cup Digits \cup {"_"})

\* strings.Title: the first letter of every word is mapped to its title case.
Title(s) ==
  [i \in DOMAIN s |->
     IF isSeparator(IF i = 1 THEN " " ELSE s[i - 1]) THEN ToUpper(s[i]) ELSE s[i]]

private(c, name, cs) ==
  LET t == IF cs[c].allNameTransform # Nil
           THEN CallNameTransform(cs[c].allNameTransform, name, cs)
           ELSE [s |-> name.Local, logs |-> 0]
  IN  IF Len(t.s) = 0
      THEN [s |-> <<"_">>, logs |-> t.logs,
            warned |-> IF Len(name.Local) > 0 THEN logf(cs[c]) ELSE 0]
      ELSE [s |-> <<ToLower(t.s[1])>> \o Tail(t.s), logs |-> t.logs, warned |-> 0]

public(c, name, cs) ==
  [private(c, name, cs) EXCEPT !.s = Title(private(c, name, cs).s)]

typeName(c, name, cs) == public(c, name, cs)

(***************************************************************************)
(* The values the options are built from.                                  *)
(***************************************************************************)
SeparatorPattern ==
  [class |-> {".", "_", " ", "-", "\t", "\n", "\f", "\r"}, valid |-> TRUE]

PatternA == [class |-> {"a"}, valid |-> TRUE]

PatternBad == [class |-> {}, valid |-> FALSE]

DefaultOptions ==
  << IgnoreAttributes(<<"id", "href", "ref", "offset">>),
     ReplaceAllNames(SeparatorPattern, <<>>),
     PackageName("ws"),
     HandleSOAPArrayType,
     SOAPArrayAsSlice >>

OptionValues ==
  << ErrorLog("stderr", 1),
     PackageName("ws"),
     PackageName("p"),
     IgnoreAttributes(<<"id", "href">>),
     IgnoreElements(<<"any">>),
     OnlyTypes([class |-> {"O"}, valid |-> TRUE]),
     ReplaceAllNames(SeparatorPattern, <<>>),
     ReplaceAllNames(PatternA, <<".">>),
     ReplaceAllNames(PatternBad, <<>>),
     replaceAllNamesRegex({"."}, <<"a">>),
     ProcessTypes("userFn"),
     HandleSOAPArrayType,
     SOAPArrayAsSlice >>

RECURSIVE SeqsUpTo(_, _)
SeqsUpTo(S, n) ==
  IF n = 0 THEN {<<>>}
  ELSE LET shorter == SeqsUpTo(S, n - 1)
       IN  shorter \cup {Append(s, x) : s \in shorter, x \in S}

OptionSeqs ==
  {[i \in DOMAIN ix |-> OptionValues[ix[i]]] :
     ix \in SeqsUpTo(DOMAIN OptionValues, MaxOpts) \ {<<>>}}

\* A Config as the program constructs it: the zero Config, or the zero
\* Config with DefaultOptions applied.
InitialHeaps ==
  LET step(cs, c, dflt) == IF dflt THEN Option(c, DefaultOptions, cs).cfgs ELSE cs
      zero == [c \in CfgIds |-> Config]
  IN  {step(step(zero, "X", dx), "Y", dy) : dx \in BOOLEAN, dy \in BOOLEAN}

IdleCall ==
  [phase |-> "idle", target |-> "X", opts |-> <<>>, snaps |-> <<>>,
   previous |-> NilOption, post |-> <<>>, revertOn |-> "X"]

NoRes == [fn |-> "none"]

(***************************************************************************)
(* The option system as a state machine: one cfg.Option(opts...) call,     *)
(* then the Option it returned applied to a Config.                        *)
(***************************************************************************)
OtherVarsIdle ==
  /\ nres = NoRes /\ types = <<>> /\ sres = NoRes
  /\ decl = NoRes /\ fres = NoRes /\ xm = NoRes

InitOpt ==
  /\ cfgs \in InitialHeaps
  /\ call = IdleCall
  /\ OtherVarsIdle

CallOption(c, opts) ==
  /\ call.phase = "idle"
  /\ LET r == Option(c, opts, cfgs)
     IN  /\ cfgs' = r.cfgs
         /\ call' = [phase |-> "applied", target |-> c, opts |-> opts,
                     snaps |-> r.snaps, previous |-> r.previous,
                     post |-> r.cfgs, revertOn |-> c]
  /\ UNCHANGED <<nres, types, sres, decl, fres, xm>>

\* y.Option(previous): the returned Option applied to Config y.
ApplyPrevious(y) ==
  /\ call.phase = "applied"
  /\ LET r == Option(y, <<call.previous>>, cfgs)
     IN  /\ cfgs' = r.cfgs
         /\ call' = [call EXCEPT !.phase = "reverted", !.revertOn = y]
  /\ UNCHANGED <<nres, types, sres, decl, fres, xm>>

NextOpt ==
  \/ \E c \in CfgIds, opts \in OptionSeqs : CallOption(c, opts)
  \/ \E y \in CfgIds : ApplyPrevious(y)

SpecOpt == InitOpt /\ [][NextOpt]_vars

(***************************************************************************)
(* Names: the local names the transforms are run on.                       *)
(***************************************************************************)
NameAlphabet == {"a", "A", ".", "_"}

Names == {[Space |-> "", Local |-> l] : l \in SeqsUpTo(NameAlphabet, MaxNameLen)}

(***************************************************************************)
(* Properties of the option system (SpecOpt).                              *)
(***************************************************************************)
\* The Config fields an option of the initial sequence assigns.
Writes(o) ==
  CASE o.op = "ErrorLog"             -> {"logger", "loglevel"}
    [] o.op = "PackageName"          -> {"pkgname"}
    [] o.op = "IgnoreAttributes"     -> {"filterAttributes"}
    [] o.op = "IgnoreElements"       -> {"filterElements"}
    [] o.op = "OnlyTypes"            -> {"filterTypes"}
    [] o.op = "ReplaceAllNames"      -> {"allNameTransform"}
    [] o.op = "replaceAllNamesRegex" -> {"allNameTransform"}
    [] o.op = "ProcessTypes"         -> {"preprocessType"}
    [] o.op = "HandleSOAPArrayType"  -> {"preprocessType"}
    [] o.op = "SOAPArrayAsSlice"     -> {"postprocessType"}

NumOpts == Len(call.opts)

LastOpt == call.opts[NumOpts]

RevertedOnTarget == call.phase = "reverted" /\ call.revertOn = call.target

\* C1 as stated: the Option returned by cfg.Option(o1, ..., on), applied to the
\* same Config, restores every field to its value before the sequence.
C1_Original ==
  RevertedOnTarget => cfgs[call.target] = call.snaps[1][call.target]

\* C1 amended: the Option returned by cfg.Option(o1, ..., on), applied to the
\* same Config, restores to its value before the sequence every field that
\* none of o1 .. o(n-1) wrote; for n = 1 that is every field of the Config.
C1_Amended ==
  RevertedOnTarget =>
    /\ \A f \in ConfigFields :
         (\A i \in 1..(NumOpts - 1) : f \notin Writes(call.opts[i]))
           => cfgs[call.target][f] = call.snaps[1][call.target][f]
    /\ NumOpts = 1 => cfgs[call.target] = call.snaps[1][call.target]

C1_Witness ==
  /\ RevertedOnTarget
  /\ NumOpts = 1
  /\ call.post[call.target] # call.snaps[1][call.target]
  /\ cfgs[call.target] = call.snaps[1][call.target]

\* C2: the Option returned by cfg.Option(o1, ..., on), applied to the same
\* Config, gives every field on wrote the value it had just before on was
\* applied; a chain-installing on leaves exactly the chain installed before it.
C2_RevertsFinalOption ==
  RevertedOnTarget =>
    \A f \in Writes(LastOpt) :
      cfgs[call.target][f] = call.snaps[NumOpts][call.target][f]

C2_Witness ==
  /\ RevertedOnTarget
  /\ NumOpts >= 2
  /\ LastOpt.op = "ReplaceAllNames"
  /\ call.snaps[NumOpts][call.target].allNameTransform # Nil
  /\ call.post[call.target].allNameTransform
       # call.snaps[NumOpts][call.target].allNameTransform
  /\ cfgs[call.target].allNameTransform
       = call.snaps[NumOpts][call.target].allNameTransform

\* The substitution of one ReplaceAllNames rule on its own.
Substitute(o, s) == IF o.err THEN s ELSE ReplaceAllString(o.reg, s, o.repl)

\* The result of the chain installed in Config c of heap cs.
ChainResult(cs, c, name) ==
  IF cs[c].allNameTransform = Nil THEN name.Local
  ELSE CallNameTransform(cs[c].allNameTransform, name, cs).s

TwoRulesInstalled ==
  /\ call.phase = "applied"
  /\ NumOpts >= 2
  /\ call.opts[NumOpts - 1].op = "ReplaceAllNames"
  /\ LastOpt.op = "ReplaceAllNames"

\* C3: after ReplaceAllNames rule A and then rule B are applied, the generic
\* transform of a name is B's substitution of A's substitution of what the chain
\* installed before gave (the local name when none was); an invalid rule passes
\* its input through.
C3_InstallationOrder ==
  TwoRulesInstalled =>
    \A name \in Names :
      ChainResult(cfgs, call.target, name)
        = Substitute(LastOpt,
            Substitute(call.opts[NumOpts - 1],
              ChainResult(call.snaps[NumOpts - 1], call.target, name)))

C3_Witness ==
  /\ TwoRulesInstalled
  /\ call.opts[NumOpts - 1] = ReplaceAllNames(PatternA, <<".">>)
  /\ LastOpt = ReplaceAllNames(SeparatorPattern, <<>>)
  /\ call.snaps[NumOpts - 1][call.target].allNameTransform # Nil
  /\ ChainResult(cfgs, call.target, [Space |-> "", Local |-> <<"a", "A">>]) = <<"A">>

\* C9 as stated: the Option returned for an option applied to Config X, applied
\* to another Config Y, leaves every field of X as it was and writes the
\* restored value into Y.
C9_Original ==
  (call.phase = "reverted" /\ call.revertOn # call.target) =>
    /\ cfgs[call.target] = call.post[call.target]
    /\ \A f \in Writes(LastOpt) :
         cfgs[call.revertOn][f] = call.snaps[NumOpts][call.target][f]

(***************************************************************************)
(* The name pipeline as a state machine (SpecName): a Config set up by     *)
(* options, then calls of private, public and typeName.                    *)
(***************************************************************************)
NameOptionValues ==
  << ErrorLog("stderr", 1),
     ReplaceAllNames(SeparatorPattern, <<>>),
     ReplaceAllNames(PatternA, <<".">>),
     ReplaceAllNames(PatternBad, <<>>),
     replaceAllNamesRegex({"."}, <<"a">>) >>

NameHeaps ==
  {Option("X", [i \in DOMAIN ix |-> NameOptionValues[ix[i]]],
          [c \in CfgIds |-> Config]).cfgs :
     ix \in SeqsUpTo(DOMAIN NameOptionValues, MaxOpts)}

InitName ==
  /\ cfgs \in NameHeaps
  /\ call = IdleCall
  /\ nres = NoRes
  /\ types = <<>> /\ sres = NoRes /\ decl = NoRes /\ fres = NoRes /\ xm = NoRes

NameResult(fn, c, name, r) ==
  [fn |-> fn, c |-> c, name |-> name, out |-> r.s, logs |-> r.logs,
   warned |-> r.warned]

CallPrivate(c, name) ==
  /\ nres' = NameResult("private", c, name, private(c, name, cfgs))
  /\ UNCHANGED <<cfgs, call, types, sres, decl, fres, xm>>

CallPublic(c, name) ==
  /\ nres' = NameResult("public", c, name, public(c, name, cfgs))
  /\ UNCHANGED <<cfgs, call, types, sres, decl, fres, xm>>

CallTypeName(c, name) ==
  /\ nres' = NameResult("typeName", c, name, typeName(c, name, cfgs))
  /\ UNCHANGED <<cfgs, call, types, sres, decl, fres, xm>>

\* The calls are made on X, the Config the options were applied to.
NextName ==
  \/ \E name \in Names : CallPrivate("X", name)
  \/ \E name \in Names : CallPublic("X", name)
  \/ \E name \in Names : CallTypeName("X", name)

SpecName == InitName /\ [][NextName]_vars

\* C7 as stated, for the strings returned: private(name) is the transformed
\* string with only its first character lower-cased, or "_" when the transform
\* gave the empty string; public(name) is private(name) with only its first
\* character upper-cased, every other character the same.
C7_Original ==
  LET t == ChainResult(cfgs, nres.c, nres.name)
      priv == IF t = <<>> THEN <<"_">> ELSE <<ToLower(t[1])>> \o Tail(t)
  IN  /\ nres.fn = "private" => nres.out = priv
      /\ nres.fn \in {"public", "typeName"} =>
           nres.out = <<ToUpper(priv[1])>> \o Tail(priv)

\* C7's clause on the warning: private logs its warning whenever the transform
\* gave the empty string.
C7_WarningAlways ==
  (nres.fn = "private" /\ ChainResult(cfgs, nres.c, nres.name) = <<>>)
    => nres.warned = 1

(***************************************************************************)
(* The schema's type graph.  A type is named by its identity; the complex  *)
(* types are the objects in `types`, each with its Name, Base, Attributes  *)
(* and Elements.  Every complex type has a base (a type declared without   *)
(* one derives from the builtin anyType, as Array does in the comment at   *)
(* config.go:346-363); builtins have none.                                 *)
(***************************************************************************)
ComplexIds == {"Array", "IntArray", "Sub"}

SimpleIds == {"Str"}

NilType == "nil"

soapenc == "http://schemas.xmlsoap.org/soap/encoding/"

wsdl == "http://schemas.xmlsoap.org/wsdl/"

\* xsd.Base: the base of a complex or simple type, nil for a builtin.
Base(x, ts) ==
  IF x \in ComplexIds THEN ts[x].Base
  ELSE IF x \in SimpleIds THEN "string"
  ELSE NilType

\* The namespaces in scope of an attribute, by prefix.
Scope(prefix) ==
  IF prefix = <<"x">> THEN "http://www.w3.org/2001/XMLSchema"
  ELSE IF prefix = <<"t">> THEN "tns"
  ELSE ""

RECURSIVE IndexOf(_, _, _)
IndexOf(s, ch, i) ==
  IF i > Len(s) THEN 0 ELSE IF s[i] = ch THEN i ELSE IndexOf(s, ch, i + 1)

\* Attribute.Resolve: "prefix:local" to the qualified name.
Resolve(qname) ==
  LET i == IndexOf(qname, ":", 1)
  IN  IF i = 0 THEN [Space |-> "tns", Local |-> qname]
      ELSE [Space |-> Scope(SubSeq(qname, 1, i - 1)),
            Local |-> SubSeq(qname, i + 1, Len(qname))]

isSpace(ch) == ch \in {" ", "\t", "\n", "\r"}

RECURSIVE TrimLeft(_)
TrimLeft(s) == IF s # <<>> /\ isSpace(Head(s)) THEN TrimLeft(Tail(s)) ELSE s

RECURSIVE TrimRight(_)
TrimRight(s) ==
  IF s # <<>> /\ isSpace(s[Len(s)]) THEN TrimRight(SubSeq(s, 1, Len(s) - 1)) ELSE s

TrimSpace(s) == TrimRight(TrimLeft(s))

TrimSuffix(s, suffix) ==
  IF Len(s) >= Len(suffix) /\ SubSeq(s, Len(s) - Len(suffix) + 1, Len(s)) = suffix
  THEN SubSeq(s, 1, Len(s) - Len(suffix))
  ELSE s

\* Schema.FindType: the type of that name in the schema's table, or nil.
FindType(name) ==
  IF name = [Space |-> "http://www.w3.org/2001/XMLSchema", Local |-> <<"i">>] THEN "int"
  ELSE IF name = [Space |-> "tns", Local |-> <<"A">>] THEN "Array"
  ELSE IF name = [Space |-> "tns", Local |-> <<"S">>] THEN "Str"
  ELSE NilType

\* The index at which a range loop with break stops: the first i with
\* hit[i], 0 when there is none.
FirstIndex(hit) ==
  IF \E i \in DOMAIN hit : hit[i]
  THEN CHOOSE i \in DOMAIN hit : hit[i] /\ \A j \in 1..(i - 1) : ~hit[j]
  ELSE 0

FirstArrayTypeAttribute(attributes) ==
  FirstIndex([i \in DOMAIN attributes |-> attributes[i].Name.Local = "arrayType"])

FirstWsdlArrayType(attr) ==
  FirstIndex([i \in DOMAIN attr |->
                attr[i].Name = [Space |-> wsdl, Local |-> "arrayType"]])

FirstWildcard(elements) ==
  FirstIndex([i \in DOMAIN elements |-> elements[i].Wildcard])

\* The walk of overrideWildcardType's loop from type x: the first wildcard
\* element of the first type that has one, "abort" at a type that is not a
\* complex type, "none" when the walk reaches a type without a base.
RECURSIVE WildcardWalk(_, _)
WildcardWalk(x, ts) ==
  IF Base(x, ts) = NilType THEN [status |-> "none"]
  ELSE IF x \notin ComplexIds THEN [status |-> "abort"]
  ELSE IF FirstWildcard(ts[x].Elements) # 0
       THEN [status |-> "found",
             elem |-> ts[x].Elements[FirstWildcard(ts[x].Elements)]]
       ELSE WildcardWalk(Base(x, ts), ts)

\* An override that appends the retyped element even when t's own list holds
\* a wildcard.
overrideWildcardType_Mut(c, t, base, ts, cs) ==
  LET w == WildcardWalk(t, ts)
      elem == [w.elem EXCEPT !.Type = base]
  IN  IF w.status # "found" THEN [types |-> ts, logs |-> logf(cs[c])]
      ELSE [types |-> [ts EXCEPT ![t].Elements = Append(@, elem)],
            logs |-> debugf(cs[c])]

overrideWildcardType(c, t, base, ts, cs) ==
  LET w == WildcardWalk(t, ts)
      elem == [w.elem EXCEPT !.Type = base]
      replaced == \E i \in DOMAIN ts[t].Elements : ts[t].Elements[i].Wildcard
  IN  IF w.status # "found" THEN [types |-> ts, logs |-> logf(cs[c])]
      ELSE [types |->
              [ts EXCEPT ![t].Elements =
                 IF replaced
                 THEN [i \in DOMAIN @ |-> IF @[i].Wildcard THEN elem ELSE @[i]]
                 ELSE Append(@, elem)],
            logs |-> debugf(cs[c])]

\* The attribute index i and sub-attribute index j that parseSOAPArrayType's
\* scan stops at (j = 0: no wsdl:arrayType in the first arrayType attribute).
ArrayTypeAt(ct) ==
  LET i == FirstArrayTypeAttribute(ct.Attributes)
  IN  [i |-> i,
       j |-> IF i = 0 THEN 0 ELSE FirstWsdlArrayType(ct.Attributes[i].Attr)]

\* The item type named, after TrimSpace and TrimSuffix.
ItemType(value) ==
  [Resolve(value) EXCEPT !.Local = TrimSuffix(TrimSpace(@), <<"[", "]">>)]

\* A resolver that reports a failed lookup through errorf, whatever the level.
parseSOAPArrayType_Mut(c, t, ts, cs) ==
  IF t \notin ComplexIds THEN [types |-> ts, ret |-> t, logs |-> 0]
  ELSE
    LET at == ArrayTypeAt(ts[t])
    IN  IF at.j = 0 THEN [types |-> ts, ret |-> t, logs |-> 0]
        ELSE
          LET value == ts[t].Attributes[at.i].Attr[at.j].Value
              ts1 == [ts EXCEPT ![t].Attributes[at.i].Fixed = value]
              b == FindType(ItemType(value))
          IN  IF Resolve(value).Local = <<>>
              THEN [types |-> ts1, ret |-> t, logs |-> 0]
              ELSE IF b # NilType
              THEN [ret |-> t] @@ overrideWildcardType(c, t, b, ts1, cs)
              ELSE [types |-> ts1, ret |-> t, logs |-> errorf(cs[c])]

parseSOAPArrayType(c, t, ts, cs) ==
  IF t \notin ComplexIds THEN [types |-> ts, ret |-> t, logs |-> 0]
  ELSE
    LET at == ArrayTypeAt(ts[t])
    IN  IF at.j = 0 THEN [types |-> ts, ret |-> t, logs |-> 0]
        ELSE
          LET value == ts[t].Attributes[at.i].Attr[at.j].Value
              ts1 == [ts EXCEPT ![t].Attributes[at.i].Fixed = value]
              b == FindType(ItemType(value))
          IN  IF Resolve(value).Local = <<>>
              THEN [types |-> ts1, ret |-> t, logs |-> 0]
              ELSE IF b # NilType
              THEN [ret |-> t] @@ overrideWildcardType(c, t, b, ts1, cs)
              ELSE [types |-> ts1, ret |-> t, logs |-> logf(cs[c])]

(***************************************************************************)
(* The schemas the resolver is run on.                                     *)
(***************************************************************************)
Wild1 == [Name |-> "any", Wildcard |-> TRUE, Type |-> "anyType"]

Wild2 == [Name |-> "other", Wildcard |-> TRUE, Type |-> "anyType"]

Plain == [Name |-> "item", Wildcard |-> FALSE, Type |-> "int"]

ElementLists == SeqsUpTo({Wild1, Wild2, Plain}, MaxElems)

\* The values of a wsdl:arrayType attribute.
ArrayTypeValues ==
  { <<"x", ":", "i", "[", "]">>,            \* the builtin int
    <<"x", ":", "i", "[", "]", " ">>,       \* the same, with trailing space
    <<"t", ":", "A", "[", "]">>,            \* the complex type Array
    <<"x", ":", "i", "[", "]", "[", "]">>,  \* i[] after one suffix is cut
    <<"t", ":", "u", "[", "]">>,            \* no type of that name
    <<"x", ":">> }                          \* no local name

PlainAttribute(name) == [Name |-> [Space |-> "", Local |-> name], Attr |-> <<>>, Fixed |-> <<>>]

ArrayTypeAttribute(attrs) ==
  [Name |-> [Space |-> soapenc, Local |-> "arrayType"], Attr |-> attrs, Fixed |-> <<>>]

WsdlArrayType(value) == [Name |-> [Space |-> wsdl, Local |-> "arrayType"], Value |-> value]

OtherAttr == [Name |-> [Space |-> "", Local |-> "ref"], Value |-> <<"t", ":", "A">>]

AttributeLists ==
  {<<>>, <<PlainAttribute("id"), ArrayTypeAttribute(<<>>)>>}
    \cup {<<ArrayTypeAttribute(<<WsdlArrayType(v)>>)>> : v \in ArrayTypeValues}
    \cup {<<PlainAttribute("id"),
            ArrayTypeAttribute(<<OtherAttr, WsdlArrayType(v), WsdlArrayType(<<"x", ":">>)>>),
            ArrayTypeAttribute(<<WsdlArrayType(<<"t", ":", "A">>)>>)>> :
            v \in {<<"t", ":", "u", "[", "]">>}}

ComplexType(name, base, attributes, elements) ==
  [Name |-> [Space |-> "tns", Local |-> name], Base |-> base,
   Attributes |-> attributes, Elements |-> elements]

Schemas ==
  {[x \in ComplexIds |->
      CASE x = "Array"    -> ComplexType("Array", "anyType",
                                         <<ArrayTypeAttribute(<<>>)>>, ae)
        [] x = "IntArray" -> ComplexType("IntArray", ib, ia, ie)
        [] x = "Sub"      -> ComplexType("Sub", "IntArray", sa, se)] :
     ae \in {<<>>, <<Plain, Wild2, Wild1>>},
     ib \in {"Array", "Str"},
     ia \in AttributeLists,
     ie \in ElementLists,
     sa \in {<<>>, <<ArrayTypeAttribute(<<WsdlArrayType(<<"x", ":", "i", "[", "]">>)>>)>>},
     se \in {<<>>, <<Plain>>}}

LoggerHeaps ==
  {[c \in CfgIds |-> [Config EXCEPT !.logger = l[1], !.loglevel = l[2]]] :
     l \in {<<NilLogger, 0>>, <<"stderr", 0>>, <<"stderr", 1>>}}

(***************************************************************************)
(* The resolver as a state machine (SpecSoap): the pre-processing step is  *)
(* run on the types of the schema, one call at a time.                     *)
(***************************************************************************)
InitSoap ==
  /\ cfgs \in LoggerHeaps
  /\ call = IdleCall /\ nres = NoRes
  /\ types \in Schemas
  /\ sres = NoRes
  /\ decl = NoRes /\ fres = NoRes /\ xm = NoRes

ParseSOAPArrayType(c, t) ==
  LET r == parseSOAPArrayType(c, t, types, cfgs)
  IN  /\ types' = r.types
      /\ sres' = [fn |-> "parseSOAPArrayType", c |-> c, t |-> t,
                  before |-> types, ret |-> r.ret, logs |-> r.logs]
      /\ UNCHANGED <<cfgs, call, nres, decl, fres, xm>>

NextSoap == \E t \in ComplexIds \cup SimpleIds : ParseSOAPArrayType("X", t)

SpecSoap == InitSoap /\ [][NextSoap]_vars

(***************************************************************************)
(* Properties of the resolver (SpecSoap).                                  *)
(***************************************************************************)
\* The wsdl:arrayType value the last call found on its type.
FoundValue ==
  LET ct == sres.before[sres.t]
  IN  ct.Attributes[ArrayTypeAt(ct).i].Attr[ArrayTypeAt(ct).j].Value

HasArrayType ==
  /\ sres.fn = "parseSOAPArrayType"
  /\ sres.t \in ComplexIds
  /\ ArrayTypeAt(sres.before[sres.t]).j # 0
  /\ Resolve(FoundValue).Local # <<>>

\* The last call was given a type whose arrayType names a type the schema lacks.
ItemTypeAbsent == HasArrayType /\ FindType(ItemType(FoundValue)) = NilType

\* The last call was given a type whose arrayType names a type of the schema.
ItemTypeResolved == HasArrayType /\ FindType(ItemType(FoundValue)) # NilType

\* C4 as stated: when the item type is absent from the schema the type is
\* returned unchanged, attributes' fixed values included, and exactly one
\* diagnostic is logged.
C4_Original ==
  ItemTypeAbsent =>
    /\ sres.ret = sres.t
    /\ types[sres.t] = sres.before[sres.t]
    /\ sres.logs = 1

\* C4 amended: when the item type is absent from the schema the type is
\* returned with every element and every attribute as before, except that the
\* arrayType attribute's fixed value now is the wsdl:arrayType value; one
\* diagnostic is logged if a logger is installed with a level above 0, none
\* otherwise.
C4_Amended ==
  ItemTypeAbsent =>
    /\ sres.ret = sres.t
    /\ types = [sres.before EXCEPT
                  ![sres.t].Attributes[ArrayTypeAt(sres.before[sres.t]).i].Fixed
                     = FoundValue]
    /\ sres.logs = IF cfgs[sres.c].logger # NilLogger /\ cfgs[sres.c].loglevel > 0
                   THEN 1 ELSE 0

C4_Witness ==
  /\ ItemTypeAbsent
  /\ sres.logs = 1
  /\ types[sres.t] # sres.before[sres.t]
  /\ types[sres.t].Elements = sres.before[sres.t].Elements

\* The types from x up its base links.
RECURSIVE BaseChain(_, _)
BaseChain(x, ts) ==
  IF x = NilType THEN <<>> ELSE <<x>> \o BaseChain(Base(x, ts), ts)

HasWildcard(x, ts) ==
  x \in ComplexIds /\ \E i \in DOMAIN ts[x].Elements : ts[x].Elements[i].Wildcard

\* The first type of t's base chain, t included, that is a complex type with a
\* wildcard element (NilType when there is none).
FirstWildcardType(t, ts) ==
  LET chain == BaseChain(t, ts)
  IN  IF \E k \in DOMAIN chain : HasWildcard(chain[k], ts)
      THEN chain[CHOOSE k \in DOMAIN chain :
                   /\ HasWildcard(chain[k], ts)
                   /\ \A m \in 1..(k - 1) : ~HasWildcard(chain[m], ts)]
      ELSE NilType

\* That type's first wildcard element, retyped to b.
Retyped(x, ts, b) ==
  LET els == ts[x].Elements
      i == CHOOSE i \in DOMAIN els :
             els[i].Wildcard /\ \A j \in 1..(i - 1) : ~els[j].Wildcard
  IN  [els[i] EXCEPT !.Type = b]

\* C5: the override uses the first wildcard element of the first complex type
\* of t's base chain (t included) that has one; if t's own list holds wildcard
\* elements each is replaced in place by that element retyped to b, and if only
\* an ancestor has one the retyped element is appended to t's list.
C5_WildcardOverride ==
  (ItemTypeResolved /\ FirstWildcardType(sres.t, sres.before) # NilType) =>
    LET old == sres.before[sres.t].Elements
        new == types[sres.t].Elements
        elem == Retyped(FirstWildcardType(sres.t, sres.before), sres.before,
                        FindType(ItemType(FoundValue)))
    IN  IF HasWildcard(sres.t, sres.before)
        THEN /\ Len(new) = Len(old)
             /\ \A i \in DOMAIN old :
                  new[i] = IF old[i].Wildcard THEN elem ELSE old[i]
        ELSE /\ Len(new) = Len(old) + 1
             /\ SubSeq(new, 1, Len(old)) = old
             /\ new[Len(new)] = elem

\* The wildcard is two links up and t's own list holds none: appended.
C5_Witness ==
  /\ ItemTypeResolved
  /\ sres.t = "Sub"
  /\ ~HasWildcard("Sub", sres.before)
  /\ ~HasWildcard("IntArray", sres.before)
  /\ HasWildcard("Array", sres.before)
  /\ types["Sub"].Elements
       = Append(sres.before["Sub"].Elements, [Wild2 EXCEPT !.Type = "int"])

\* t's own list holds two different wildcards: both replaced in place.
C5_WitnessInPlace ==
  /\ ItemTypeResolved
  /\ sres.before[sres.t].Elements = <<Wild2, Wild1>>
  /\ types[sres.t].Elements
       = <<[Wild2 EXCEPT !.Type = "int"], [Wild2 EXCEPT !.Type = "int"]>>

(***************************************************************************)
(* The struct-to-slice flattener.  A spec is [name, expr, methods]; an     *)
(* expression is an identifier, an array type of an element expression,    *)
(* or a struct type of fields, each field with its type and the value of   *)
(* the xml key of its tag.                                                 *)
(***************************************************************************)
Ident(name) == [kind |-> "ident", name |-> name]

ArrayType(elt) == [kind |-> "array", Elt |-> elt]

StructType(fields) == [kind |-> "struct", Fields |-> fields]

\* strings.Split(tag, ",")[0]
FirstPart(tag) ==
  IF IndexOf(tag, ",", 1) = 0 THEN tag ELSE SubSeq(tag, 1, IndexOf(tag, ",", 1) - 1)

\* strings.Fields: the words of s, split around white space.
RECURSIVE StringFields(_, _)
StringFields(s, word) ==
  IF s = <<>> THEN (IF word = <<>> THEN <<>> ELSE <<word>>)
  ELSE IF isSpace(Head(s))
       THEN (IF word = <<>> THEN <<>> ELSE <<word>>) \o StringFields(Tail(s), <<>>)
       ELSE StringFields(Tail(s), Append(word, Head(s)))

AnyTag == <<",", "a", "n", "y">>

\* The expected item tag soapArrayToSlice derives from the field's xml tag.
ItemTag(tag) ==
  LET fields == StringFields(FirstPart(tag), <<>>)
  IN  IF tag = <<>> THEN [Space |-> <<>>, Local |-> AnyTag]
      ELSE [Space |-> IF Len(fields) > 1 THEN fields[1] ELSE <<>>,
            Local |-> IF Len(fields) > 0 THEN fields[Len(fields)] ELSE AnyTag]

UnmarshalXML(s, field) ==
  [name |-> "UnmarshalXML", recv |-> s.name, itemTag |-> ItemTag(field.Tag),
   itemType |-> field.Type.Elt]

MarshalXML(s) == [name |-> "MarshalXML", recv |-> s.name]

\* A flattener that takes the first field of any struct that has fields.
soapArrayToSlice_Mut(c, s, cs, uerr, merr) ==
  IF s.expr.kind # "struct" THEN [spec |-> s, logs |-> 0]
  ELSE IF Len(s.expr.Fields) < 1 THEN [spec |-> s, logs |-> 0]
  ELSE IF s.expr.Fields[1].Type.kind # "array" THEN [spec |-> s, logs |-> 0]
  ELSE IF uerr THEN [spec |-> s, logs |-> debugf(cs[c]) + logf(cs[c])]
  ELSE IF merr THEN [spec |-> s, logs |-> debugf(cs[c]) + logf(cs[c])]
  ELSE [spec |-> [s EXCEPT !.expr = s.expr.Fields[1].Type,
                           !.methods = @ \o <<MarshalXML(s),
                                              UnmarshalXML(s, s.expr.Fields[1])>>],
        logs |-> debugf(cs[c])]

\* uerr, merr: whether generating the UnmarshalXML, the MarshalXML
\* declaration fails.
soapArrayToSlice(c, s, cs, uerr, merr) ==
  IF s.expr.kind # "struct" THEN [spec |-> s, logs |-> 0]
  ELSE IF Len(s.expr.Fields) # 1 THEN [spec |-> s, logs |-> 0]
  ELSE IF s.expr.Fields[1].Type.kind # "array" THEN [spec |-> s, logs |-> 0]
  ELSE IF uerr THEN [spec |-> s, logs |-> debugf(cs[c]) + logf(cs[c])]
  ELSE IF merr THEN [spec |-> s, logs |-> debugf(cs[c]) + logf(cs[c])]
  ELSE [spec |-> [s EXCEPT !.expr = s.expr.Fields[1].Type,
                           !.methods = @ \o <<MarshalXML(s),
                                              UnmarshalXML(s, s.expr.Fields[1])>>],
        logs |-> debugf(cs[c])]

(***************************************************************************)
(* The flattener as a state machine (SpecFlat): the post-processing step   *)
(* is run on a draft declaration.                                          *)
(***************************************************************************)
FieldTags ==
  { <<>>,
    AnyTag,
    <<"i", "t", "e", "m">>,
    <<"n", "s", " ", "f", "o", "o", ",", "o", "m", "i", "t">> }

StructFields ==
  {[Type |-> t, Tag |-> tag] :
     t \in {ArrayType(Ident("int")), Ident("int")}, tag \in FieldTags}

Specs ==
  {[name |-> "T", expr |-> e, methods |-> m] :
     e \in {Ident("int"), ArrayType(Ident("int"))}
             \cup {StructType(f) : f \in SeqsUpTo(StructFields, MaxFields)},
     m \in {<<>>, <<[name |-> "String", recv |-> "T"]>>}}

InitFlat ==
  /\ cfgs \in LoggerHeaps
  /\ call = IdleCall /\ nres = NoRes /\ types = <<>> /\ sres = NoRes
  /\ decl \in Specs
  /\ fres = NoRes
  /\ xm = NoRes

SoapArrayToSlice(c, uerr, merr) ==
  LET r == soapArrayToSlice(c, decl, cfgs, uerr, merr)
  IN  /\ decl' = r.spec
      /\ fres' = [fn |-> "soapArrayToSlice", c |-> c, before |-> decl,
                  uerr |-> uerr, merr |-> merr, logs |-> r.logs]
      /\ UNCHANGED <<cfgs, call, nres, types, sres, xm>>

NextFlat == \E uerr \in BOOLEAN, merr \in BOOLEAN : SoapArrayToSlice("X", uerr, merr)

SpecFlat == InitFlat /\ [][NextFlat]_vars

\* The last call was given a one-field struct whose field is sequence-typed.
OneSliceField ==
  /\ fres.before.expr.kind = "struct"
  /\ Len(fres.before.expr.Fields) = 1
  /\ fres.before.expr.Fields[1].Type.kind = "array"

\* C6: soapArrayToSlice returns expression and method list unchanged unless the
\* expression is a struct of exactly one field, that field is sequence-typed and
\* both routines are generated; then the expression is the bare sequence type and
\* exactly two methods, MarshalXML and UnmarshalXML, are appended.
C6_FlattenOnlyOneSliceField ==
  fres.fn = "soapArrayToSlice" =>
    IF OneSliceField /\ ~fres.uerr /\ ~fres.merr
    THEN /\ decl.expr = fres.before.expr.Fields[1].Type
         /\ decl.expr.kind = "array"
         /\ Len(decl.methods) = Len(fres.before.methods) + 2
         /\ SubSeq(decl.methods, 1, Len(fres.before.methods)) = fres.before.methods
         /\ decl.methods[Len(decl.methods) - 1].name = "MarshalXML"
         /\ decl.methods[Len(decl.methods)].name = "UnmarshalXML"
    ELSE /\ decl.expr = fres.before.expr
         /\ decl.methods = fres.before.methods

C6_Witness ==
  /\ fres.fn = "soapArrayToSlice"
  /\ OneSliceField /\ ~fres.uerr /\ ~fres.merr
  /\ fres.before.methods # <<>>
  /\ decl.expr = ArrayType(Ident("int"))
  /\ Len(decl.methods) = 3

\* A struct of two sequence-typed fields is left as it is.
C6_WitnessTwoFields ==
  /\ fres.fn = "soapArrayToSlice"
  /\ fres.before.expr.kind = "struct"
  /\ Len(fres.before.expr.Fields) = 2
  /\ fres.before.expr.Fields[1].Type.kind = "array"
  /\ ~fres.uerr /\ ~fres.merr
  /\ decl = fres.before

(***************************************************************************)
(* The synthesized routines.  The decoder reads the children of the array  *)
(* element: an entry is a child element (its name, the value it holds and  *)
(* whether its content decodes: "ok", "conv" a content that does not       *)
(* convert to the item type, "syntax" malformed XML), character data, or   *)
(* the end tag of the array element.  A syntax error stays with the        *)
(* decoder: every later read returns it.                                   *)
(***************************************************************************)
NoError == "nil"

ItemName == [Space |-> <<>>, Local |-> <<"i", "t", "e", "m">>]

FooName == [Space |-> <<>>, Local |-> <<"f", "o", "o">>]

StartElement(name, val, content) ==
  [k |-> "start", Name |-> name, val |-> val, content |-> content]

CharData == [k |-> "chardata"]

EndElement == [k |-> "end"]

NoToken == [k |-> "nil"]

\* d.Token() on decoder d: the token, the error, the decoder after it.
Token(d) ==
  IF d.err # NoError THEN [tok |-> NoToken, err |-> d.err, d |-> d]
  ELSE IF d.pos > Len(d.stream)
  THEN [tok |-> NoToken, err |-> "EOF", d |-> d]
  ELSE IF d.stream[d.pos].k = "start"
  THEN [tok |-> d.stream[d.pos], err |-> NoError, d |-> d]
  ELSE [tok |-> d.stream[d.pos], err |-> NoError, d |-> [d EXCEPT !.pos = @ + 1]]

\* d.DecodeElement(&item, &tok) after tok was read: the item, the error.
DecodeElement(d) ==
  LET e == d.stream[d.pos]
  IN  IF e.content = "syntax"
      THEN [item |-> 0, err |-> "syntax error",
            d |-> [d EXCEPT !.pos = @ + 1, !.err = "syntax error"]]
      ELSE IF e.content = "conv"
      THEN [item |-> 0, err |-> "conversion error", d |-> [d EXCEPT !.pos = @ + 1]]
      ELSE [item |-> e.val, err |-> NoError, d |-> [d EXCEPT !.pos = @ + 1]]

\* d.Skip() after a start element was read.
Skip(d) ==
  IF d.stream[d.pos].content = "syntax"
  THEN [err |-> "syntax error", d |-> [d EXCEPT !.pos = @ + 1, !.err = "syntax error"]]
  ELSE [err |-> NoError, d |-> [d EXCEPT !.pos = @ + 1]]

\* The tokens e.EncodeElement(elt, tag) writes for the items, as the decoder
\* reads them back.
RECURSIVE Encoded(_)
Encoded(items) ==
  IF items = <<>> THEN <<>>
  ELSE <<StartElement(ItemName, Head(items), "ok")>> \o Encoded(Tail(items))

(***************************************************************************)
(* The routines as a state machine (SpecXML).  xm.pc is the place in       *)
(* UnmarshalXML: "token" before a d.Token() call of the for statement,     *)
(* "body" in the loop body, "return" at the return statement.              *)
(***************************************************************************)
Items == {1, 2}

XmlTags ==
  FieldTags \cup { <<"f", "o", "o">>, <<"n", "s", " ", "i", "t", "e", "m">> }

Children ==
  {StartElement(n, 1, c) : n \in {ItemName, FooName}, c \in {"ok", "conv", "syntax"}}
    \cup {CharData}

Streams ==
  {s \o e : s \in SeqsUpTo(Children, MaxItems), e \in {<<EndElement>>, <<>>}}

Machine(pc, src, stream, itemTag) ==
  [pc |-> pc, src |-> src, itemTag |-> itemTag,
   d |-> [stream |-> stream, pos |-> 1, err |-> NoError],
   tok |-> NoToken, err |-> NoError, a |-> <<>>, ret |-> NoError,
   marshalled |-> FALSE, failed |-> NoError, reads |-> 0]

InitXML ==
  /\ cfgs = [c \in CfgIds |-> Config]
  /\ call = IdleCall /\ nres = NoRes /\ types = <<>> /\ sres = NoRes
  /\ decl = NoRes /\ fres = NoRes
  /\ \E tag \in XmlTags :
       \/ \E src \in SeqsUpTo(Items, MaxItems) :
            xm = Machine("marshal", src, <<>>, ItemTag(tag))
       \/ \E stream \in Streams :
            xm = Machine("token", <<>>, stream, ItemTag(tag))

\* MarshalXML on xm.src; the encoder fails at item `fail` (0: at none).  What
\* it wrote, and the end tag of the enclosing element, go to the decoder.
RunMarshalXML(fail) ==
  /\ xm.pc = "marshal"
  /\ fail \in 0..Len(xm.src)
  /\ xm' = IF fail # 0
           THEN [xm EXCEPT !.pc = "done", !.ret = "encode error"]
           ELSE [xm EXCEPT !.pc = "token", !.marshalled = TRUE,
                           !.d.stream = Encoded(xm.src) \o <<EndElement>>]
  /\ UNCHANGED <<cfgs, call, nres, types, sres, decl, fres>>

\* tok, err = d.Token(); err == nil
UnmarshalToken ==
  /\ xm.pc = "token"
  /\ LET r == Token(xm.d)
     IN  xm' = [xm EXCEPT !.tok = r.tok, !.err = r.err, !.d = r.d,
                          !.pc = IF r.err = NoError THEN "body" ELSE "return",
                          !.reads = IF xm.failed # NoError THEN @ + 1 ELSE @]
  /\ UNCHANGED <<cfgs, call, nres, types, sres, decl, fres>>

\* err = d.Skip(); continue
UnmarshalSkip ==
  /\ xm.pc = "body"
  /\ xm.tok.k = "start"
  /\ xm.itemTag.Local # AnyTag /\ xm.itemTag # xm.tok.Name
  /\ LET r == Skip(xm.d)
     IN  xm' = [xm EXCEPT !.err = r.err, !.d = r.d, !.pc = "token",
                          !.failed = IF @ = NoError THEN r.err ELSE @]
  /\ UNCHANGED <<cfgs, call, nres, types, sres, decl, fres>>

\* if err = d.DecodeElement(&item, &tok); err == nil { *a = append(*a, item) }
UnmarshalDecode ==
  /\ xm.pc = "body"
  /\ xm.tok.k = "start"
  /\ ~(xm.itemTag.Local # AnyTag /\ xm.itemTag # xm.tok.Name)
  /\ LET r == DecodeElement(xm.d)
     IN  xm' = [xm EXCEPT !.err = r.err, !.d = r.d, !.pc = "token",
                          !.a = IF r.err = NoError THEN Append(@, r.item) ELSE @,
                          !.failed = IF @ = NoError THEN r.err ELSE @]
  /\ UNCHANGED <<cfgs, call, nres, types, sres, decl, fres>>

\* if _, ok := tok.(xml.EndElement); ok { break }
UnmarshalEnd ==
  /\ xm.pc = "body"
  /\ xm.tok.k = "end"
  /\ xm' = [xm EXCEPT !.pc = "return"]
  /\ UNCHANGED <<cfgs, call, nres, types, sres, decl, fres>>

\* A token that is neither a start nor an end element.
UnmarshalOther ==
  /\ xm.pc = "body"
  /\ xm.tok.k = "chardata"
  /\ xm' = [xm EXCEPT !.pc = "token"]
  /\ UNCHANGED <<cfgs, call, nres, types, sres, decl, fres>>

\* return err
UnmarshalReturn ==
  /\ xm.pc = "return"
  /\ xm' = [xm EXCEPT !.pc = "done", !.ret = xm.err]
  /\ UNCHANGED <<cfgs, call, nres, types, sres, decl, fres>>

NextXML ==
  \/ \E fail \in 0..MaxItems : RunMarshalXML(fail)
  \/ UnmarshalToken
  \/ UnmarshalSkip
  \/ UnmarshalDecode
  \/ UnmarshalEnd
  \/ UnmarshalOther
  \/ UnmarshalReturn

SpecXML == InitXML /\ [][NextXML]_vars

\* C8 as stated, for the error returned: when DecodeElement or Skip has
\* returned an error, that error is what UnmarshalXML returns.
C8_ErrorReturned ==
  (xm.failed # NoError /\ xm.pc = "done") => xm.ret = xm.failed

\* C8 as stated, in full: once DecodeElement or Skip has returned an error,
\* UnmarshalXML reads no further token and returns that error.
C8_Immediately ==
  xm.failed # NoError =>
    /\ xm.reads = 0
    /\ xm.pc = "done" => xm.ret = xm.failed

\* C10 as stated: UnmarshalXML run on what MarshalXML wrote for the sequence S,
\* followed by the enclosing end tag, gives exactly S and no error, whatever
\* expected tag the field's xml tag gave.
C10_Original ==
  (xm.marshalled /\ xm.pc = "done") => (xm.a = xm.src /\ xm.ret = NoError)

====
